---- MODULE Spec2Model ----
(***************************************************************************)
(* A model of the ImagineProSDK client (src/src/index.ts): the constructor, *)
(* the submission methods, the single status fetches and the two pollers,   *)
(* with the HTTP transport (fetch) as the environment.                      *)
(*                                                                          *)
(* JavaScript values are tagged records; an object is the sequence of its   *)
(* <<key, value>> pairs in insertion order, so that a key holding           *)
(* `undefined` and an absent key are different objects, as they are in JS.  *)
(* Times are milliseconds, as Date.now() and setTimeout count them.         *)
(***************************************************************************)
EXTENDS Integers, Sequences, FiniteSets, TLC

(***************************************************************************)
(* Bounds of the model.                                                     *)
(***************************************************************************)
\* A poll issues at most MaxQueries status queries before the model stops it.
MaxQueries == 4
\* upscale / variant are called with an index in 0..MaxIndex.
MaxIndex == 5
\* Date.now() when the client is constructed.
Epoch == 1000

(***************************************************************************)
(* JavaScript values.                                                       *)
(***************************************************************************)
Undefined == [t |-> "undefined"]
Str(s) == [t |-> "string", s |-> s]
Num(n) == [t |-> "number", n |-> n]
Bool(b) == [t |-> "boolean", b |-> b]
Arr(items) == [t |-> "array", items |-> items]

\* obj.k: the value of key k, undefined when the object has no such key.
Get(obj, k) ==
  LET idx == {i \in 1..Len(obj) : obj[i][1] = k}
  IN IF idx = {} THEN Undefined ELSE obj[CHOOSE i \in idx : TRUE][2]

\* k in obj: the object has the key, whatever its value.
HasKey(obj, k) == \E i \in 1..Len(obj) : obj[i][1] = k

\* obj[k] = v as an object literal or a spread does it: an existing key keeps
\* its position and takes the new value, a new key goes last.
SetKey(obj, k, v) ==
  IF HasKey(obj, k)
  THEN [i \in 1..Len(obj) |-> IF obj[i][1] = k THEN <<k, v>> ELSE obj[i]]
  ELSE Append(obj, <<k, v>>)

\* { ...obj, ...src }
RECURSIVE Spread(_, _)
Spread(obj, src) ==
  IF src = <<>> THEN obj
  ELSE Spread(SetKey(obj, Head(src)[1], Head(src)[2]), Tail(src))

\* The truthiness `a || b` tests.
Truthy(v) ==
  CASE v.t = "undefined" -> FALSE
    [] v.t = "string" -> v.s # ""
    [] v.t = "number" -> v.n # 0
    [] v.t = "boolean" -> v.b
    [] OTHER -> TRUE

\* JSON.stringify of an object: the members in insertion order, a member whose
\* value is undefined left out. The text is kept as the member list it encodes.
JSONstringify(obj) == SelectSeq(obj, LAMBDA p : p[2] # Undefined)

\* `${x}` of a number: its decimal digits.
TemplateNumber(v) == ToString(v.n)

(***************************************************************************)
(* Errors, promise outcomes and HTTP responses.                             *)
(***************************************************************************)
\* An Error object: its name and message are all it carries.
JSError(name, message) == <<<<"name", Str(name)>>, <<"message", Str(message)>>>>

Resolved(v) == [kind |-> "resolved", value |-> v]
Rejected(e) == [kind |-> "rejected", value |-> e]
Pending == [kind |-> "pending", value |-> <<>>]

\* fetch() rejects: the request never got a response.
NetworkFailure ==
  [kind |-> "network", ok |-> FALSE, statusText |-> "", parsable |-> FALSE, body |-> <<>>]
\* fetch() resolves with a response; response.json() gives body, or throws a
\* SyntaxError when the text is not JSON.
Http(ok, statusText, parsable, body) ==
  [kind |-> "http", ok |-> ok, statusText |-> statusText, parsable |-> parsable, body |-> body]

\* String(v), as the Error constructor applies it to its argument.
ToJSString(v) ==
  CASE v.t = "string" -> v.s
    [] v.t = "number" -> ToString(v.n)
    [] v.t = "boolean" -> IF v.b THEN "true" ELSE "false"
    [] OTHER -> "undefined"

FetchFailed == JSError("TypeError", "fetch failed")
JSONSyntaxError == JSError("SyntaxError", "Unexpected token < in JSON at position 0")

(***************************************************************************)
(* State.                                                                   *)
(***************************************************************************)
VARIABLES
  options,   \* the object the constructor was given
  cfg,       \* the client's private fields: apiKey, baseUrl, defaultTimeout, fetchInterval
  now,       \* Date.now()
  pc,        \* "idle", "inflight" (awaiting fetch), "waiting" (awaiting setTimeout), "resolved", "rejected"
  op,        \* the method the caller invoked
  params,    \* the argument(s) the caller passed
  poll,      \* a running poll's messageId, interval, timeout and startTime
  sent,      \* the requests handed to fetch() by this call, in order
  resp,      \* the responses fetch() gave this call, in order
  received,  \* the status snapshots a poll has fetched, in order
  waits,     \* the interval waits a poll has completed
  lastLatency, \* how long the latest fetch took
  result,    \* how the call's promise settled
  polls      \* the polls a caller runs side by side on the one client, each
             \* with its own locals, requests, answers and promise

vars ==
  <<options, cfg, now, pc, op, params, poll, sent, resp, received, waits, lastLatency, result,
    polls>>

(***************************************************************************)
(* constructor                                                              *)
(***************************************************************************)
DefaultBaseUrl == "https://api.imaginepro.ai"
DefaultTimeout == 1800000
FetchInterval == 2000

\* A destructuring default: used when the property is undefined.
DefaultTo(v, d) == IF v = Undefined THEN d ELSE v

constructor(o) ==
  [apiKey |-> Get(o, "apiKey"),
   baseUrl |-> DefaultTo(Get(o, "baseUrl"), Str(DefaultBaseUrl)),
   defaultTimeout |-> DefaultTo(Get(o, "defaultTimeout"), Num(DefaultTimeout)),
   fetchInterval |-> DefaultTo(Get(o, "fetchInterval"), Num(FetchInterval))]

(***************************************************************************)
(* getRequest / postRequest                                                 *)
(***************************************************************************)
Headers ==
  <<<<"Authorization", Str("Bearer " \o cfg.apiKey.s)>>,
    <<"Content-Type", Str("application/json")>>>>

\* The fetch() call of getRequest.
getRequestFetch(endpoint) ==
  [method |-> "GET", url |-> cfg.baseUrl.s \o endpoint, headers |-> Headers,
   hasBody |-> FALSE, body |-> <<>>]

\* The fetch() call of postRequest.
postRequestFetch(endpoint, body) ==
  [method |-> "POST", url |-> cfg.baseUrl.s \o endpoint, headers |-> Headers,
   hasBody |-> TRUE, body |-> JSONstringify(body)]

\* getRequest as it would be without the response.ok test: an error body is
\* returned as though it were the payload.
getRequest_IgnoresOk(r) ==
  IF r.kind = "network" THEN Rejected(FetchFailed)
  ELSE IF ~r.parsable THEN Rejected(JSONSyntaxError)
  ELSE Resolved(r.body)

\* getRequest as it would be if it read the error body's `message` member
\* instead of its `error` member.
getRequest_MessageField(r) ==
  IF r.kind = "network" THEN Rejected(FetchFailed)
  ELSE IF ~r.parsable THEN Rejected(JSONSyntaxError)
  ELSE IF ~r.ok
    THEN Rejected(JSError("Error",
           IF Truthy(Get(r.body, "message"))
           THEN ToJSString(Get(r.body, "message"))
           ELSE "Error fetching data: " \o r.statusText))
    ELSE Resolved(r.body)

\* How getRequest settles once fetch() has settled with r.
getRequest(r) ==
  IF r.kind = "network" THEN Rejected(FetchFailed)
  ELSE IF ~r.parsable THEN Rejected(JSONSyntaxError)
  ELSE IF ~r.ok
    THEN Rejected(JSError("Error",
           IF Truthy(Get(r.body, "error"))
           THEN ToJSString(Get(r.body, "error"))
           ELSE "Error fetching data: " \o r.statusText))
    ELSE Resolved(r.body)

\* How postRequest settles once fetch() has settled with r.
postRequest(r) ==
  IF r.kind = "network" THEN Rejected(FetchFailed)
  ELSE IF ~r.parsable THEN Rejected(JSONSyntaxError)
  ELSE IF ~r.ok
    THEN Rejected(JSError("Error",
           IF Truthy(Get(r.body, "error"))
           THEN ToJSString(Get(r.body, "error"))
           ELSE "Error posting data: " \o r.statusText))
    ELSE Resolved(r.body)

(***************************************************************************)
(* enum Button: symbolic name |-> wire string. The symbols of the source    *)
(* are written by their code points.                                        *)
(***************************************************************************)
Button ==
  [U1 |-> "U1", U2 |-> "U2", U3 |-> "U3", U4 |-> "U4",
   V1 |-> "V1", V2 |-> "V2", V3 |-> "V3", V4 |-> "V4",
   REROLL |-> "U+F8FF U+00FC U+00EE U+00D1",
   ZOOM_OUT_2X |-> "Zoom Out 2x",
   ZOOM_OUT_1_5X |-> "Zoom Out 1.5x",
   VARY_STRONG |-> "Vary (Strong)",
   VARY_SUBTLE |-> "Vary (Subtle)",
   VARY_REGION |-> "Vary (Region)",
   PAN_LEFT |-> "U+201A U+00A8 U+00D6 U+00D4 U+220F U+00E8",
   PAN_RIGHT |-> "U+201A U+00FB U+00B0 U+00D4 U+220F U+00E8",
   PAN_UP |-> "U+201A U+00A8 U+00DC U+00D4 U+220F U+00E8",
   PAN_DOWN |-> "U+201A U+00A8 U+00E1 U+00D4 U+220F U+00E8",
   MAKE_SQUARE |-> "Make Square",
   UPSCALE_2X |-> "Upscale (2x)",
   UPSCALE_4X |-> "Upscale (4x)",
   CANCEL_JOB |-> "Cancel Job",
   UPSCALE_CREATIVE |-> "Upscale (Creative)",
   UPSCALE_SUBTLE |-> "Upscale (Subtle)"]

(***************************************************************************)
(* The methods of class ImagineProSDK, each as the fetch() call it makes.   *)
(***************************************************************************)
ClassMethods ==
  {"imagine", "fetchMessageOnce", "fetchMessage", "pressButton", "upscale",
   "variant", "reroll", "inpainting", "geminiImagine", "generateVideo",
   "extendVideo", "fetchVideoMessageOnce", "fetchVideoMessage",
   "extractBaseParams", "getRequest", "postRequest"}

BaseKeys == <<"ref", "webhookOverride", "timeout", "disableCdn">>

\* extractBaseParams as it would be if it kept a field only when it is truthy
\* (timeout: params.timeout || undefined): 0 and false are lost.
extractBaseParams_Truthy(p) ==
  [i \in 1..Len(BaseKeys) |->
     <<BaseKeys[i], IF Truthy(Get(p, BaseKeys[i])) THEN Get(p, BaseKeys[i]) ELSE Undefined>>]

\* const { ref, webhookOverride, timeout, disableCdn } = params;
\* return { ref, webhookOverride, timeout, disableCdn };
extractBaseParams(p) ==
  <<<<"ref", Get(p, "ref")>>,
    <<"webhookOverride", Get(p, "webhookOverride")>>,
    <<"timeout", Get(p, "timeout")>>,
    <<"disableCdn", Get(p, "disableCdn")>>>>

\* imagine as it would be if it sent the prompt alone.
imagine_PromptOnly(p) ==
  postRequestFetch("/api/v1/nova/imagine", <<<<"prompt", Get(p, "prompt")>>>>)

imagine(p) == postRequestFetch("/api/v1/nova/imagine", p)

pressButton(p) == postRequestFetch("/api/v1/nova/button", p)

\* upscale as it would be if it forced the index into 1..4.
upscale_Clamped(p) ==
  LET i == Get(p, "index").n
      c == IF i < 1 THEN 1 ELSE IF i > 4 THEN 4 ELSE i
  IN pressButton(Spread(
       <<<<"messageId", Get(p, "messageId")>>, <<"button", Str("U" \o ToString(c))>>>>,
       extractBaseParams(p)))

upscale(p) ==
  pressButton(Spread(
    <<<<"messageId", Get(p, "messageId")>>,
      <<"button", Str("U" \o TemplateNumber(Get(p, "index")))>>>>,
    extractBaseParams(p)))

variant(p) ==
  pressButton(Spread(
    <<<<"messageId", Get(p, "messageId")>>,
      <<"button", Str("V" \o TemplateNumber(Get(p, "index")))>>>>,
    extractBaseParams(p)))

reroll(p) ==
  pressButton(Spread(
    <<<<"messageId", Get(p, "messageId")>>,
      <<"button", Str(Button.REROLL)>>>>,
    extractBaseParams(p)))

\* inpainting as it would be if the mask were left out of the button press.
inpainting_NoMask(p) ==
  pressButton(Spread(
    <<<<"messageId", Get(p, "messageId")>>,
      <<"button", Str(Button.VARY_REGION)>>,
      <<"prompt", Get(p, "prompt")>>>>,
    extractBaseParams(p)))

inpainting(p) ==
  pressButton(Spread(
    <<<<"messageId", Get(p, "messageId")>>,
      <<"button", Str(Button.VARY_REGION)>>,
      <<"mask", Get(p, "mask")>>,
      <<"prompt", Get(p, "prompt")>>>>,
    extractBaseParams(p)))

geminiImagine(p) == postRequestFetch("/api/v1/gemini/imagine", p)

generateVideo(p) == postRequestFetch("/api/v1/video/mj/generate", p)

extendVideo(p) == postRequestFetch("/api/v1/video/mj/extend", p)

fetchMessageOnce(messageId) ==
  getRequestFetch("/api/v1/message/fetch/" \o messageId)

fetchVideoMessageOnce(messageId) ==
  getRequestFetch("/api/v1/video/mj/fetch/" \o messageId)

\* The terminal test as it would be if every status other than the two
\* in-progress ones ended the poll.
fetchMessageIsTerminal_NotInProgress(messageStatus) ==
  /\ Get(messageStatus, "status") # Str("PROCESSING")
  /\ Get(messageStatus, "status") # Str("QUEUED")

\* The terminal test as it would be if FAIL were forgotten.
fetchMessageIsTerminal_DoneOnly(messageStatus) ==
  Get(messageStatus, "status") = Str("DONE")

\* The timeout test as it would be if timeout were taken in seconds, as the
\* base parameter of the same name is.
fetchMessageTimedOut_Seconds(elapsed, timeout) == elapsed > timeout * 1000

\* The loop conditions of fetchMessage.
fetchMessageIsTerminal(messageStatus) ==
  \/ Get(messageStatus, "status") = Str("DONE")
  \/ Get(messageStatus, "status") = Str("FAIL")

\* The timeout test as it would be if it fired at the limit.
fetchMessageTimedOut_AtLimit(elapsed, timeout) == elapsed >= timeout

fetchMessageTimedOut(elapsed, timeout) == elapsed > timeout

\* The timeout error as it would be if it named the job being polled.
fetchMessageTimeoutError_WithId ==
  JSError("Error", "Timeout exceeded while waiting for message status of "
                     \o poll.messageId \o ".")

fetchMessageTimeoutError ==
  JSError("Error", "Timeout exceeded while waiting for message status.")

\* The video poller's terminal test as it would be if it only asked whether the
\* job had left PROCESSING.
fetchVideoMessageIsTerminal_NotProcessing(messageStatus) ==
  Get(messageStatus, "status") # Str("PROCESSING")

\* The loop conditions of fetchVideoMessage.
fetchVideoMessageIsTerminal(messageStatus) ==
  \/ Get(messageStatus, "status") = Str("DONE")
  \/ Get(messageStatus, "status") = Str("FAIL")

\* The video poller's timeout test as it would be if it fired at the limit.
fetchVideoMessageTimedOut_AtLimit(elapsed, timeout) == elapsed >= timeout

fetchVideoMessageTimedOut(elapsed, timeout) == elapsed > timeout

fetchVideoMessageTimeoutError ==
  JSError("Error", "Timeout exceeded while waiting for video message status.")

\* A parameter default: interval = this.fetchInterval, timeout = this.defaultTimeout.
fetchMessageInterval(arg) == DefaultTo(arg, cfg.fetchInterval).n
\* The timeout default as it would be if it were the library's constant and not
\* the value the client was constructed with.
fetchMessageTimeout_Hardcoded(arg) == DefaultTo(arg, Num(DefaultTimeout)).n

fetchMessageTimeout(arg) == DefaultTo(arg, cfg.defaultTimeout).n
fetchVideoMessageInterval(arg) == DefaultTo(arg, cfg.fetchInterval).n
fetchVideoMessageTimeout(arg) == DefaultTo(arg, cfg.defaultTimeout).n

(***************************************************************************)
(* What the caller passes and what the server answers.                      *)
(***************************************************************************)
Absent == [t |-> "absent"]
Field(k, v) == IF v = Absent THEN <<>> ELSE <<<<k, v>>>>

MessageIds == {"abc123", "m"}
Indexes == 0..MaxIndex

\* Every subset of the four base parameters, false and 0 among the values.
BaseParamObjects ==
  {Field("ref", r) \o Field("webhookOverride", w) \o Field("timeout", t) \o Field("disableCdn", d) :
     r \in {Absent, Str("ref-id")},
     w \in {Absent, Str("https://hooks.example/cb")},
     t \in {Absent, Num(0), Num(900)},
     d \in {Absent, Bool(FALSE), Bool(TRUE)}}

FewBaseParamObjects ==
  {<<>>, <<<<"ref", Str("ref-id")>>>>,
   <<<<"webhookOverride", Str("https://hooks.example/cb")>>, <<"timeout", Num(900)>>>>}

Contents ==
  Arr(<<<<<<"type", Str("image")>>, <<"url", Str("https://example.com/image.png")>>>>,
        <<<<"type", Str("text")>>, <<"text", Str("make her dress in red")>>>>>>)

OptionObjects ==
  {<<<<"apiKey", Str("test-api-key")>>>>,
   <<<<"apiKey", Str("sk-xxxx")>>, <<"baseUrl", Str("https://api.custom-url.com")>>,
     <<"defaultTimeout", Num(200)>>, <<"fetchInterval", Num(100)>>>>}

IntervalArgs == {Undefined, Num(100)}
TimeoutArgs == {Undefined, Num(0), Num(200)}
Latencies == {0, 50, 600000}

Processing40 == <<<<"status", Str("PROCESSING")>>, <<"progress", Num(40)>>>>
Queued0 == <<<<"status", Str("QUEUED")>>, <<"progress", Num(0)>>>>
Paused10 == <<<<"status", Str("PAUSED")>>, <<"progress", Num(10)>>>>
Done100 ==
  <<<<"status", Str("DONE")>>, <<"progress", Num(100)>>,
    <<"uri", Str("https://cdn.imaginepro.ai/img.jpg")>>>>
Fail0 ==
  <<<<"status", Str("FAIL")>>, <<"progress", Num(0)>>, <<"error", Str("banned prompt")>>>>
Snapshots == {Processing40, Queued0, Paused10, Done100, Fail0}

Handle == <<<<"messageId", Str("abc123")>>, <<"success", Str("QUEUED")>>>>

NotFound ==
  Http(FALSE, "Not Found", TRUE, <<<<"error", Str("not found")>>, <<"statusCode", Num(404)>>>>)
BadRequest ==
  Http(FALSE, "Bad Request", TRUE, <<<<"message", Str("Invalid prompt")>>, <<"statusCode", Num(400)>>>>)
ServerError == Http(FALSE, "Internal Server Error", TRUE, <<>>)
BadGateway == Http(FALSE, "Bad Gateway", FALSE, <<>>)
Failures == {NetworkFailure, NotFound, BadRequest, ServerError, BadGateway}

PostResponses == {Http(TRUE, "OK", TRUE, Handle)} \cup Failures
GetResponses == {Http(TRUE, "OK", TRUE, s) : s \in Snapshots} \cup Failures
\* What a poll's status queries are answered with.
PollResponses == {Http(TRUE, "OK", TRUE, s) : s \in Snapshots} \cup {NetworkFailure, NotFound}

PostMethods ==
  {"imagine", "pressButton", "upscale", "variant", "reroll", "inpainting",
   "geminiImagine", "generateVideo", "extendVideo"}
FetchOnceMethods == {"fetchMessageOnce", "fetchVideoMessageOnce"}
PollMethods == {"fetchMessage", "fetchVideoMessage"}

NoPoll == [messageId |-> "", interval |-> 0, timeout |-> 0, startTime |-> 0]

\* Two polls side by side, by order of their calls, each for a job of its own.
Pollers == {1, 2}
JobOf == <<"abc123", "m">>

\* A poll not yet called.  issued and due are the times at which the pending
\* await (a fetch or a setTimeout) began and settles; answers are the responses
\* to the poll's queries, each with the time it took.
IdlePoll ==
  [pc |-> "idle", op |-> "none", messageId |-> "", interval |-> 0, timeout |-> 0,
   startTime |-> 0, issued |-> 0, due |-> 0, sent |-> <<>>, answers |-> <<>>,
   waits |-> 0, result |-> Pending]

(***************************************************************************)
(* Init: a client just constructed, no call made.                           *)
(***************************************************************************)
Init ==
  /\ options \in OptionObjects
  /\ cfg = constructor(options)
  /\ now = Epoch
  /\ pc = "idle"
  /\ op = "none"
  /\ params = <<>>
  /\ poll = NoPoll
  /\ sent = <<>>
  /\ resp = <<>>
  /\ received = <<>>
  /\ waits = 0
  /\ lastLatency = 0
  /\ result = Pending
  /\ polls = [p \in Pollers |-> IdlePoll]

(***************************************************************************)
(* The submission methods: the call runs up to its await of fetch().        *)
(***************************************************************************)
Begin(name, p, req) ==
  /\ pc = "idle"
  /\ op' = name
  /\ params' = p
  /\ sent' = <<req>>
  /\ pc' = "inflight"
  /\ UNCHANGED <<polls, options, cfg, now, poll, resp, received, waits, lastLatency, result>>

Call_imagine ==
  \E b \in FewBaseParamObjects :
    LET p == <<<<"prompt", Str("a cat")>>>> \o b
    IN Begin("imagine", p, imagine(p))

Call_pressButton ==
  \E id \in MessageIds, btn \in {Button.U1, Button.UPSCALE_CREATIVE}, b \in FewBaseParamObjects :
    LET p == <<<<"messageId", Str(id)>>, <<"button", Str(btn)>>>> \o b
    IN Begin("pressButton", p, pressButton(p))

Call_upscale ==
  \E id \in MessageIds, i \in Indexes, b \in BaseParamObjects :
    LET p == <<<<"messageId", Str(id)>>, <<"index", Num(i)>>>> \o b
    IN Begin("upscale", p, upscale(p))

Call_variant ==
  \E id \in MessageIds, i \in Indexes, b \in BaseParamObjects :
    LET p == <<<<"messageId", Str(id)>>, <<"index", Num(i)>>>> \o b
    IN Begin("variant", p, variant(p))

Call_reroll ==
  \E id \in MessageIds, b \in BaseParamObjects :
    LET p == <<<<"messageId", Str(id)>>>> \o b
    IN Begin("reroll", p, reroll(p))

Call_inpainting ==
  \E id \in MessageIds, pr \in {Absent, Str("a red hat")}, b \in BaseParamObjects :
    LET p == <<<<"messageId", Str(id)>>, <<"mask", Str("xxx")>>>> \o Field("prompt", pr) \o b
    IN Begin("inpainting", p, inpainting(p))

Call_geminiImagine ==
  \E m \in {Absent, Str("flux-1.1-pro")}, b \in FewBaseParamObjects :
    LET p == <<<<"contents", Contents>>>> \o Field("model", m) \o b
    IN Begin("geminiImagine", p, geminiImagine(p))

Call_generateVideo ==
  \E b \in FewBaseParamObjects :
    LET p == <<<<"prompt", Str("smooth transition")>>,
               <<"startFrameUrl", Str("https://example.com/start.png")>>,
               <<"endFrameUrl", Str("https://example.com/end.png")>>>> \o b
    IN Begin("generateVideo", p, generateVideo(p))

Call_extendVideo ==
  \E id \in MessageIds, m \in {Absent, Str("smooth")}, b \in FewBaseParamObjects :
    LET p == <<<<"messageId", Str(id)>>, <<"index", Num(0)>>>> \o Field("animateMode", m) \o b
    IN Begin("extendVideo", p, extendVideo(p))

\* The class has no universalImagine member: the call throws before any request.
Call_universalImagine ==
  \E m \in {Absent, Str("nano-banana-2")}, b \in FewBaseParamObjects :
    /\ pc = "idle"
    /\ "universalImagine" \notin ClassMethods
    /\ op' = "universalImagine"
    /\ params' = <<<<"contents", Contents>>>> \o Field("model", m) \o b
    /\ sent' = <<>>
    /\ result' = Rejected(JSError("TypeError", "sdk.universalImagine is not a function"))
    /\ pc' = "rejected"
    /\ UNCHANGED <<polls, options, cfg, now, poll, resp, received, waits, lastLatency>>

Call_fetchMessageOnce ==
  \E id \in MessageIds :
    Begin("fetchMessageOnce", <<<<"messageId", Str(id)>>>>, fetchMessageOnce(id))

Call_fetchVideoMessageOnce ==
  \E id \in MessageIds :
    Begin("fetchVideoMessageOnce", <<<<"messageId", Str(id)>>>>, fetchVideoMessageOnce(id))

\* postRequest as it would be if a failed request were sent once more.
postRequest_settles_Retry ==
  /\ pc = "inflight"
  /\ op \in PostMethods
  /\ \E r \in PostResponses :
       /\ resp' = Append(resp, r)
       /\ IF postRequest(r).kind = "rejected" /\ Len(sent) < 2
          THEN /\ sent' = Append(sent, sent[1])
               /\ UNCHANGED <<result, pc>>
          ELSE /\ result' = postRequest(r)
               /\ pc' = postRequest(r).kind
               /\ UNCHANGED sent
  /\ UNCHANGED <<polls, options, cfg, now, op, params, poll, received, waits, lastLatency>>

\* fetch() settles inside postRequest and the submission's promise settles with it.
postRequest_settles ==
  /\ pc = "inflight"
  /\ op \in PostMethods
  /\ \E r \in PostResponses :
       /\ resp' = Append(resp, r)
       /\ result' = postRequest(r)
       /\ pc' = postRequest(r).kind
  /\ UNCHANGED <<polls, options, cfg, now, op, params, poll, sent, received, waits, lastLatency>>

\* fetch() settles inside getRequest and fetchMessageOnce / fetchVideoMessageOnce
\* returns the snapshot as it is, or the rejection goes through.
getRequest_settles ==
  /\ pc = "inflight"
  /\ op \in FetchOnceMethods
  /\ \E r \in GetResponses :
       /\ resp' = Append(resp, r)
       /\ result' = getRequest(r)
       /\ pc' = getRequest(r).kind
  /\ UNCHANGED <<polls, options, cfg, now, op, params, poll, sent, received, waits, lastLatency>>

(***************************************************************************)
(* fetchMessage: startTime is taken, the loop starts and awaits its first   *)
(* fetchMessageOnce.                                                        *)
(***************************************************************************)
\* fetchMessage as it would be if the loop slept before its first query.
Call_fetchMessage_WaitFirst ==
  \E id \in MessageIds, i \in IntervalArgs, t \in TimeoutArgs :
    /\ pc = "idle"
    /\ op' = "fetchMessage"
    /\ params' = <<<<"messageId", Str(id)>>, <<"interval", i>>, <<"timeout", t>>>>
    /\ poll' = [messageId |-> id,
                interval |-> fetchMessageInterval(i),
                timeout |-> fetchMessageTimeout(t),
                startTime |-> now]
    /\ now' = now + fetchMessageInterval(i)
    /\ waits' = 1
    /\ sent' = <<fetchMessageOnce(id)>>
    /\ pc' = "inflight"
    /\ UNCHANGED <<polls, options, cfg, resp, received, lastLatency, result>>

Call_fetchMessage ==
  \E id \in MessageIds, i \in IntervalArgs, t \in TimeoutArgs :
    /\ pc = "idle"
    /\ op' = "fetchMessage"
    /\ params' = <<<<"messageId", Str(id)>>, <<"interval", i>>, <<"timeout", t>>>>
    /\ poll' = [messageId |-> id,
                interval |-> fetchMessageInterval(i),
                timeout |-> fetchMessageTimeout(t),
                startTime |-> now]
    /\ sent' = <<fetchMessageOnce(id)>>
    /\ pc' = "inflight"
    /\ UNCHANGED <<polls, options, cfg, now, resp, received, waits, lastLatency, result>>

\* The loop body as it would be if a failed query were caught and the loop went
\* on to its next iteration.
fetchMessage_fetched_RetryOnError ==
  /\ pc = "inflight"
  /\ op = "fetchMessage"
  /\ \E r \in PollResponses, lat \in Latencies :
       LET o == getRequest(r)
           t == now + lat
       IN /\ now' = t
          /\ lastLatency' = lat
          /\ resp' = Append(resp, r)
          /\ IF o.kind = "rejected"
             THEN /\ pc' = "waiting"
                  /\ UNCHANGED <<received, result>>
             ELSE /\ received' = Append(received, o.value)
                  /\ IF fetchMessageIsTerminal(o.value)
                     THEN /\ result' = Resolved(o.value)
                          /\ pc' = "resolved"
                     ELSE IF fetchMessageTimedOut(t - poll.startTime, poll.timeout)
                     THEN /\ result' = Rejected(fetchMessageTimeoutError)
                          /\ pc' = "rejected"
                     ELSE /\ pc' = "waiting"
                          /\ UNCHANGED result
  /\ UNCHANGED <<polls, options, cfg, op, params, poll, sent, waits>>

\* The loop body as it would be if the timeout test came before the status test.
fetchMessage_fetched_TimeoutFirst ==
  /\ pc = "inflight"
  /\ op = "fetchMessage"
  /\ \E r \in PollResponses, lat \in Latencies :
       LET o == getRequest(r)
           t == now + lat
       IN /\ now' = t
          /\ lastLatency' = lat
          /\ resp' = Append(resp, r)
          /\ IF o.kind = "rejected"
             THEN /\ result' = o
                  /\ pc' = "rejected"
                  /\ UNCHANGED received
             ELSE /\ received' = Append(received, o.value)
                  /\ IF fetchMessageTimedOut(t - poll.startTime, poll.timeout)
                     THEN /\ result' = Rejected(fetchMessageTimeoutError)
                          /\ pc' = "rejected"
                     ELSE IF fetchMessageIsTerminal(o.value)
                     THEN /\ result' = Resolved(o.value)
                          /\ pc' = "resolved"
                     ELSE /\ pc' = "waiting"
                          /\ UNCHANGED result
  /\ UNCHANGED <<polls, options, cfg, op, params, poll, sent, waits>>

\* The awaited fetchMessageOnce settles after lat ms; the loop body runs to its
\* return, its throw or its setTimeout.
fetchMessage_fetched ==
  /\ pc = "inflight"
  /\ op = "fetchMessage"
  /\ \E r \in PollResponses, lat \in Latencies :
       LET o == getRequest(r)
           t == now + lat
       IN /\ now' = t
          /\ lastLatency' = lat
          /\ resp' = Append(resp, r)
          /\ IF o.kind = "rejected"
             THEN /\ result' = o
                  /\ pc' = "rejected"
                  /\ UNCHANGED received
             ELSE /\ received' = Append(received, o.value)
                  /\ IF fetchMessageIsTerminal(o.value)
                     THEN /\ result' = Resolved(o.value)
                          /\ pc' = "resolved"
                     ELSE IF fetchMessageTimedOut(t - poll.startTime, poll.timeout)
                     THEN /\ result' = Rejected(fetchMessageTimeoutError)
                          /\ pc' = "rejected"
                     ELSE /\ pc' = "waiting"
                          /\ UNCHANGED result
  /\ UNCHANGED <<polls, options, cfg, op, params, poll, sent, waits>>

\* The loop as it would be if the timer issued the next query without the
\* previous one having been awaited.
fetchMessage_waited_Overlapping ==
  /\ pc \in {"waiting", "inflight"}
  /\ op = "fetchMessage"
  /\ Len(sent) < MaxQueries
  /\ now' = now + poll.interval
  /\ waits' = waits + 1
  /\ sent' = Append(sent, fetchMessageOnce(poll.messageId))
  /\ pc' = "inflight"
  /\ UNCHANGED <<polls, options, cfg, op, params, poll, resp, received, lastLatency, result>>

\* setTimeout(resolve, interval) fires and the next iteration awaits its fetch.
fetchMessage_waited ==
  /\ pc = "waiting"
  /\ op = "fetchMessage"
  /\ Len(sent) < MaxQueries
  /\ now' = now + poll.interval
  /\ waits' = waits + 1
  /\ sent' = Append(sent, fetchMessageOnce(poll.messageId))
  /\ pc' = "inflight"
  /\ UNCHANGED <<polls, options, cfg, op, params, poll, resp, received, lastLatency, result>>

(***************************************************************************)
(* fetchVideoMessage                                                        *)
(***************************************************************************)
Call_fetchVideoMessage ==
  \E id \in MessageIds, i \in IntervalArgs, t \in TimeoutArgs :
    /\ pc = "idle"
    /\ op' = "fetchVideoMessage"
    /\ params' = <<<<"messageId", Str(id)>>, <<"interval", i>>, <<"timeout", t>>>>
    /\ poll' = [messageId |-> id,
                interval |-> fetchVideoMessageInterval(i),
                timeout |-> fetchVideoMessageTimeout(t),
                startTime |-> now]
    /\ sent' = <<fetchVideoMessageOnce(id)>>
    /\ pc' = "inflight"
    /\ UNCHANGED <<polls, options, cfg, now, resp, received, waits, lastLatency, result>>

fetchVideoMessage_fetched ==
  /\ pc = "inflight"
  /\ op = "fetchVideoMessage"
  /\ \E r \in PollResponses, lat \in Latencies :
       LET o == getRequest(r)
           t == now + lat
       IN /\ now' = t
          /\ lastLatency' = lat
          /\ resp' = Append(resp, r)
          /\ IF o.kind = "rejected"
             THEN /\ result' = o
                  /\ pc' = "rejected"
                  /\ UNCHANGED received
             ELSE /\ received' = Append(received, o.value)
                  /\ IF fetchVideoMessageIsTerminal(o.value)
                     THEN /\ result' = Resolved(o.value)
                          /\ pc' = "resolved"
                     ELSE IF fetchVideoMessageTimedOut(t - poll.startTime, poll.timeout)
                     THEN /\ result' = Rejected(fetchVideoMessageTimeoutError)
                          /\ pc' = "rejected"
                     ELSE /\ pc' = "waiting"
                          /\ UNCHANGED result
  /\ UNCHANGED <<polls, options, cfg, op, params, poll, sent, waits>>

fetchVideoMessage_waited ==
  /\ pc = "waiting"
  /\ op = "fetchVideoMessage"
  /\ Len(sent) < MaxQueries
  /\ now' = now + poll.interval
  /\ waits' = waits + 1
  /\ sent' = Append(sent, fetchVideoMessageOnce(poll.messageId))
  /\ pc' = "inflight"
  /\ UNCHANGED <<polls, options, cfg, op, params, poll, resp, received, lastLatency, result>>

(***************************************************************************)
(* The specification.                                                       *)
(***************************************************************************)
Next ==
  \/ Call_imagine
  \/ Call_pressButton
  \/ Call_upscale
  \/ Call_variant
  \/ Call_reroll
  \/ Call_inpainting
  \/ Call_geminiImagine
  \/ Call_generateVideo
  \/ Call_extendVideo
  \/ Call_universalImagine
  \/ Call_fetchMessageOnce
  \/ Call_fetchVideoMessageOnce
  \/ postRequest_settles
  \/ getRequest_settles
  \/ Call_fetchMessage
  \/ fetchMessage_fetched
  \/ fetchMessage_waited
  \/ Call_fetchVideoMessage
  \/ fetchVideoMessage_fetched
  \/ fetchVideoMessage_waited

Spec == Init /\ [][Next]_vars

(***************************************************************************)
(* Polls side by side.  A caller starts fetchMessage / fetchVideoMessage    *)
(* for one job and, without awaiting it, for another.  Each invocation has  *)
(* its own locals; the event loop runs one continuation at a time, the one  *)
(* whose fetch or timer settles first, and Date.now() is what they share.   *)
(***************************************************************************)
MaxPollQueries == 3

PollIntervalArgs == {Undefined}
PollTimeoutArgs == {Undefined, Num(0)}
PollLatencies == {0, 50}
PollAnswers ==
  {Http(TRUE, "OK", TRUE, Processing40), Http(TRUE, "OK", TRUE, Done100), NetworkFailure}

\* The body of fetchMessage's loop from the settled fetch on: where it leaves
\* the invocation and with what.
fetchMessageLoopBody(r, elapsed, timeout) ==
  LET o == getRequest(r)
  IN IF o.kind = "rejected" THEN [pc |-> "rejected", result |-> o]
     ELSE IF fetchMessageIsTerminal(o.value)
     THEN [pc |-> "resolved", result |-> Resolved(o.value)]
     ELSE IF fetchMessageTimedOut(elapsed, timeout)
     THEN [pc |-> "rejected", result |-> Rejected(fetchMessageTimeoutError)]
     ELSE [pc |-> "waiting", result |-> Pending]

\* The body of fetchVideoMessage's loop.
fetchVideoMessageLoopBody(r, elapsed, timeout) ==
  LET o == getRequest(r)
  IN IF o.kind = "rejected" THEN [pc |-> "rejected", result |-> o]
     ELSE IF fetchVideoMessageIsTerminal(o.value)
     THEN [pc |-> "resolved", result |-> Resolved(o.value)]
     ELSE IF fetchVideoMessageTimedOut(elapsed, timeout)
     THEN [pc |-> "rejected", result |-> Rejected(fetchVideoMessageTimeoutError)]
     ELSE [pc |-> "waiting", result |-> Pending]

\* The two pollers, by the name of the method called.
PollOnce(method, messageId) ==
  IF method = "fetchMessage" THEN fetchMessageOnce(messageId)
  ELSE fetchVideoMessageOnce(messageId)

PollInterval(method, arg) ==
  IF method = "fetchMessage" THEN fetchMessageInterval(arg)
  ELSE fetchVideoMessageInterval(arg)

PollTimeout(method, arg) ==
  IF method = "fetchMessage" THEN fetchMessageTimeout(arg)
  ELSE fetchVideoMessageTimeout(arg)

PollLoopBody(method, r, elapsed, timeout) ==
  IF method = "fetchMessage" THEN fetchMessageLoopBody(r, elapsed, timeout)
  ELSE fetchVideoMessageLoopBody(r, elapsed, timeout)

\* The start time as it would be if it were kept in a field of the client,
\* which every call of a poller overwrites.
StartTimeOf_Shared(p) ==
  LET called == {q \in Pollers : polls[q].pc # "idle"}
  IN polls[CHOOSE q \in called : \A x \in called : x <= q].startTime

\* const startTime = Date.now(): a local of the invocation.
StartTimeOf(p) == polls[p].startTime

\* A poll has a fetch or a timer pending (a poll that has used up its queries
\* is followed no further).
IsPending(q) ==
  \/ polls[q].pc = "inflight"
  \/ polls[q].pc = "waiting" /\ Len(polls[q].sent) < MaxPollQueries

\* The pending await of p settles no later than any other.
IsNext(p) == \A q \in Pollers : IsPending(q) => polls[p].due <= polls[q].due

\* The caller invokes the poller for job JobOf[p]: it takes its start time and
\* awaits its first query, which will take lat ms.
Poll_called(p) ==
  /\ polls[p].pc = "idle"
  /\ \A q \in Pollers : q < p => polls[q].pc # "idle"
  /\ \E method \in PollMethods, i \in PollIntervalArgs, t \in PollTimeoutArgs,
        lat \in PollLatencies :
       polls' = [polls EXCEPT ![p] =
                   [pc |-> "inflight", op |-> method, messageId |-> JobOf[p],
                    interval |-> PollInterval(method, i),
                    timeout |-> PollTimeout(method, t),
                    startTime |-> now, issued |-> now, due |-> now + lat,
                    sent |-> <<PollOnce(method, JobOf[p])>>, answers |-> <<>>,
                    waits |-> 0, result |-> Pending]]
  /\ UNCHANGED <<options, cfg, now, pc, op, params, poll, sent, resp, received, waits,
                 lastLatency, result>>

\* The query of poll p is answered and its loop body runs to its return, its
\* throw or its setTimeout.
Poll_fetched(p) ==
  /\ polls[p].pc = "inflight"
  /\ IsNext(p)
  /\ \E r \in PollAnswers :
       LET me == polls[p]
           b == PollLoopBody(me.op, r, me.due - StartTimeOf(p), me.timeout)
       IN /\ now' = me.due
          /\ polls' = [polls EXCEPT ![p] =
                         [me EXCEPT !.pc = b.pc,
                                    !.result = b.result,
                                    !.answers = Append(@, [response |-> r,
                                                           latency |-> me.due - me.issued]),
                                    !.issued = me.due,
                                    !.due = IF b.pc = "waiting" THEN me.due + me.interval
                                            ELSE me.due]]
  /\ UNCHANGED <<options, cfg, pc, op, params, poll, sent, resp, received, waits,
                 lastLatency, result>>

\* The timer of poll p fires and its next iteration awaits a query that will
\* take lat ms.
Poll_waited(p) ==
  /\ polls[p].pc = "waiting"
  /\ IsNext(p)
  /\ Len(polls[p].sent) < MaxPollQueries
  /\ \E lat \in PollLatencies :
       LET me == polls[p]
       IN /\ now' = me.due
          /\ polls' = [polls EXCEPT ![p] =
                         [me EXCEPT !.pc = "inflight",
                                    !.waits = @ + 1,
                                    !.sent = Append(@, PollOnce(me.op, me.messageId)),
                                    !.issued = me.due,
                                    !.due = me.due + lat]]
  /\ UNCHANGED <<options, cfg, pc, op, params, poll, sent, resp, received, waits,
                 lastLatency, result>>

PollsNext == \E p \in Pollers : Poll_called(p) \/ Poll_fetched(p) \/ Poll_waited(p)

PollsSpec == Init /\ [][PollsNext]_vars

\* One poll on its own: the loop run on the answers and latencies given, from
\* its start (elapsed 0, first query out, no wait yet) to where they leave it.
RECURSIVE PollAlone(_, _, _, _, _, _, _)
PollAlone(method, answers, interval, timeout, elapsed, queries, waited) ==
  IF answers = <<>>
  THEN [pc |-> "inflight", result |-> Pending, queries |-> queries, waits |-> waited,
        elapsed |-> elapsed]
  ELSE LET e == elapsed + Head(answers).latency
           b == PollLoopBody(method, Head(answers).response, e, timeout)
       IN IF b.pc = "waiting" /\ Tail(answers) # <<>>
          THEN PollAlone(method, Tail(answers), interval, timeout, e + interval,
                         queries + 1, waited + 1)
          ELSE [pc |-> b.pc, result |-> b.result, queries |-> queries, waits |-> waited,
                elapsed |-> e]

(***************************************************************************)
(* Vocabulary of the properties.                                            *)
(***************************************************************************)
Elapsed == now - poll.startTime
StatusOf(snapshot) == Get(snapshot, "status")
TerminalStatuses == {Str("DONE"), Str("FAIL")}
AllNonTerminal == \A k \in 1..Len(received) : StatusOf(received[k]) \notin TerminalStatuses
\* Every status query answered so far was answered with a snapshot.
OnlySnapshots == Len(received) = Len(resp)
Last(seq) == seq[Len(seq)]
ButtonUrl == cfg.baseUrl.s \o "/api/v1/nova/button"

(***************************************************************************)
(* C1. Terminal-state closure: once a status query of fetchMessage has      *)
(* returned a DONE or FAIL snapshot, that snapshot is the last one fetched, *)
(* no query was issued after the one that returned it, and the poll has     *)
(* resolved with exactly that snapshot.                                     *)
(***************************************************************************)
C1_TerminalClosure ==
  op = "fetchMessage" =>
    \A k \in 1..Len(received) :
      StatusOf(received[k]) \in TerminalStatuses =>
        /\ k = Len(received)
        /\ Len(sent) = k
        /\ pc = "resolved"
        /\ result = Resolved(received[k])

C1_Witness ==
  /\ op = "fetchMessage"
  /\ pc = "resolved"
  /\ received = <<Processing40, Queued0, Fail0>>
  /\ result = Resolved(Fail0)
  /\ Len(sent) = 3

(***************************************************************************)
(* C2. Timeout: while every snapshot fetchMessage has fetched is            *)
(* non-terminal, the poll never resolves; it goes on waiting only while the *)
(* elapsed time is within timeout, so a query is in flight no later than    *)
(* timeout + interval; if it ends it ends with the timeout error, no later  *)
(* than timeout + interval + the latency of its last fetch; and it issues   *)
(* at most timeout / interval + 2 queries.                                  *)
(***************************************************************************)
C2_TimeoutBound ==
  (op = "fetchMessage" /\ OnlySnapshots /\ AllNonTerminal) =>
    /\ pc # "resolved"
    /\ pc = "waiting" => Elapsed <= poll.timeout
    /\ pc = "inflight" => Elapsed <= poll.timeout + poll.interval
    /\ pc = "rejected" =>
         /\ result = Rejected(JSError("Error", "Timeout exceeded while waiting for message status."))
         /\ Elapsed <= poll.timeout + poll.interval + lastLatency
    /\ Len(sent) <= (poll.timeout \div poll.interval) + 2

\* The repository's test: fetchMessage('test-id', 100, 200) fed PROCESSING only.
C2_Witness ==
  /\ op = "fetchMessage"
  /\ pc = "rejected"
  /\ Get(params, "interval") = Num(100)
  /\ Get(params, "timeout") = Num(200)
  /\ Len(received) = 4
  /\ AllNonTerminal
  /\ Elapsed = 300
  /\ result = Rejected(fetchMessageTimeoutError)

(***************************************************************************)
(* C3. Job failure is a return value: a poll (image or video) that fetches  *)
(* a FAIL snapshot resolves with that snapshot; a poll rejects only without *)
(* having fetched a FAIL snapshot; and a status query that fails in         *)
(* transport or gets a non-success response makes the poll reject.          *)
(***************************************************************************)
C3_JobFailureReturns ==
  op \in PollMethods =>
    /\ (received # <<>> /\ StatusOf(Last(received)) = Str("FAIL")) =>
         (pc = "resolved" /\ result = Resolved(Last(received)))
    /\ pc = "rejected" =>
         (result.kind = "rejected" /\ \A k \in 1..Len(received) : StatusOf(received[k]) # Str("FAIL"))
    /\ (resp # <<>> /\ (Last(resp).kind = "network" \/ ~Last(resp).ok)) =>
         (pc = "rejected" /\ result.kind = "rejected")

C3_Witness ==
  /\ op = "fetchVideoMessage"
  /\ pc = "resolved"
  /\ received = <<Queued0, Fail0>>
  /\ result = Resolved(Fail0)

(***************************************************************************)
(* C4. Parameter forwarding: the one request that upscale, variant, reroll  *)
(* or inpainting sends is a POST to the button endpoint whose body has,     *)
(* among ref, webhookOverride, timeout and disableCdn, exactly the members  *)
(* the caller supplied, each with the caller's value.                       *)
(***************************************************************************)
C4_ParameterForwarding ==
  (op \in {"upscale", "variant", "reroll", "inpainting"} /\ pc # "idle") =>
    /\ Len(sent) = 1
    /\ sent[1].method = "POST"
    /\ sent[1].url = ButtonUrl
    /\ \A i \in 1..Len(BaseKeys) :
         IF HasKey(params, BaseKeys[i])
         THEN /\ HasKey(sent[1].body, BaseKeys[i])
              /\ Get(sent[1].body, BaseKeys[i]) = Get(params, BaseKeys[i])
         ELSE ~HasKey(sent[1].body, BaseKeys[i])

C4_Witness ==
  /\ op = "inpainting"
  /\ pc = "inflight"
  /\ ~HasKey(params, "ref")
  /\ ~HasKey(params, "webhookOverride")
  /\ Get(params, "timeout") = Num(0)
  /\ Get(params, "disableCdn") = Bool(FALSE)
  /\ Get(sent[1].body, "timeout") = Num(0)
  /\ Get(sent[1].body, "disableCdn") = Bool(FALSE)
  /\ ~HasKey(sent[1].body, "ref")

(***************************************************************************)
(* C5. Button synthesis: upscale sends one button-press request with the    *)
(* caller's messageId and button "U" followed by the index, variant one     *)
(* with "V" followed by the index, whatever the index is.                   *)
(***************************************************************************)
C5_ButtonSynthesis ==
  (op \in {"upscale", "variant"} /\ pc # "idle") =>
    /\ Len(sent) = 1
    /\ sent[1].method = "POST"
    /\ sent[1].url = ButtonUrl
    /\ Get(sent[1].body, "messageId") = Get(params, "messageId")
    /\ Get(sent[1].body, "button") =
         Str((IF op = "upscale" THEN "U" ELSE "V") \o ToString(Get(params, "index").n))

C5_Witness ==
  /\ op = "upscale"
  /\ pc = "inflight"
  /\ Get(params, "messageId") = Str("m")
  /\ Get(params, "index") = Num(5)
  /\ Get(sent[1].body, "button") = Str("U5")
  /\ Get(sent[1].body, "messageId") = Str("m")

(***************************************************************************)
(* C6. universalImagine sends exactly one POST to                           *)
(* <baseUrl>/api/v1/universal/imagine with the Bearer authorization header  *)
(* and the caller's params as its JSON body, and resolves with the parsed   *)
(* response when the request succeeds. (The class has no such method.)      *)
(***************************************************************************)
C6_UniversalImaginePosts ==
  op = "universalImagine" =>
    /\ Len(sent) = 1
    /\ sent[1].method = "POST"
    /\ sent[1].url = cfg.baseUrl.s \o "/api/v1/universal/imagine"
    /\ Get(sent[1].headers, "Authorization") = Str("Bearer " \o Get(options, "apiKey").s)
    /\ sent[1].body = params
    /\ (resp # <<>> /\ Last(resp).kind = "http" /\ Last(resp).ok /\ Last(resp).parsable) =>
         result = Resolved(Last(resp).body)

(***************************************************************************)
(* C7. The video poller's default budget is 900000 ms: on a client          *)
(* constructed without defaultTimeout, fetchVideoMessage called without a   *)
(* timeout and fed non-terminal snapshots only does not go on waiting once  *)
(* the elapsed time exceeds 900000 ms. (The code uses defaultTimeout.)      *)
(***************************************************************************)
VideoDefaultTimeout == 900000

C7_VideoDefaultBudget ==
  (/\ op = "fetchVideoMessage"
   /\ ~HasKey(options, "defaultTimeout")
   /\ Get(params, "timeout") = Undefined
   /\ OnlySnapshots
   /\ AllNonTerminal) =>
    (pc = "waiting" => Elapsed <= VideoDefaultTimeout)

(***************************************************************************)
(* C8. End-to-end scenario: when the first status query of fetchMessage     *)
(* returns PROCESSING (progress 40) and the second DONE (progress 100 with  *)
(* a uri), the poll resolves with the DONE snapshot after two queries and   *)
(* exactly one inter-poll wait.                                             *)
(***************************************************************************)
C8_OneWait ==
  (op = "fetchMessage" /\ received = <<Processing40, Done100>>) =>
    /\ pc = "resolved"
    /\ result = Resolved(Done100)
    /\ Len(sent) = 2
    /\ waits = 1

\* The claim as stated: exactly two inter-poll waits.
C8_TwoWaits ==
  (op = "fetchMessage" /\ received = <<Processing40, Done100>>) =>
    /\ pc = "resolved"
    /\ result = Resolved(Done100)
    /\ waits = 2

C8_Witness ==
  /\ op = "fetchMessage"
  /\ received = <<Processing40, Done100>>
  /\ pc = "resolved"
  /\ waits = 1

(***************************************************************************)
(* C9. Error surfacing: when the status query of fetchMessageOnce gets a    *)
(* non-success response the call rejects; when the response body is         *)
(* {error: "not found", statusCode: 404} the error's message is exactly     *)
(* "not found".                                                             *)
(***************************************************************************)
C9_FetchOnceRejects ==
  (op = "fetchMessageOnce" /\ resp # <<>> /\ resp[1].kind = "http" /\ ~resp[1].ok) =>
    /\ pc = "rejected"
    /\ result.kind = "rejected"
    /\ resp[1] = NotFound => Get(result.value, "message") = Str("not found")

C9_Witness ==
  /\ op = "fetchMessageOnce"
  /\ resp = <<NotFound>>
  /\ pc = "rejected"
  /\ Get(result.value, "message") = Str("not found")

(***************************************************************************)
(* C10. API errors: when a submission or a status fetch gets a non-success  *)
(* response with a JSON body, the error raised has the server's message     *)
(* (the body's message or error member) whenever the body gives one, has    *)
(* the body's statusCode whenever the body gives one, and has a generic     *)
(* message only when the body gives no message. (The code reads the error   *)
(* member only and never keeps the status code.)                            *)
(***************************************************************************)
GenericMessages ==
  {Str("Error fetching data: " \o r.statusText) : r \in Failures} \cup
  {Str("Error posting data: " \o r.statusText) : r \in Failures}

C10_ErrorCarriesServerFields ==
  (/\ op \in PostMethods \cup FetchOnceMethods \cup PollMethods
   /\ resp # <<>>
   /\ Last(resp).kind = "http" /\ ~Last(resp).ok /\ Last(resp).parsable) =>
    LET b == Last(resp).body
        e == result.value
        supplied == {Get(b, "message"), Get(b, "error")} \ {Undefined}
    IN /\ pc = "rejected"
       /\ supplied # {} => Get(e, "message") \in supplied
       /\ HasKey(b, "statusCode") => Get(e, "statusCode") = Get(b, "statusCode")
       /\ Get(e, "message") \in GenericMessages => supplied = {}

(***************************************************************************)
(* C11. Timeout error: a poll that ends by timeout had only snapshots for   *)
(* answers, none of them terminal.  As claimed, the error it rejects with   *)
(* would have the job's id and the elapsed time among its members.  The     *)
(* code throws new Error(<fixed text>): the error has a name and a message  *)
(* only, the same for every job and every elapsed time.                     *)
(***************************************************************************)
TimedOutPoll ==
  /\ op \in PollMethods
  /\ pc = "rejected"
  /\ OnlySnapshots

Members(e) == {e[i][2] : i \in DOMAIN e}

\* C11 as stated: the timeout error carries the job's id and the elapsed time.
C11_TimeoutErrorNamesJob ==
  TimedOutPoll =>
    /\ Str(poll.messageId) \in Members(result.value)
    /\ Num(Elapsed) \in Members(result.value)

\* C11 as amended: the timeout error is a plain Error with the poller's fixed
\* message and nothing else, whatever the job and the elapsed time.
C11_TimeoutErrorFixed ==
  TimedOutPoll =>
    /\ result.kind = "rejected"
    /\ result.value =
         << <<"name", Str("Error")>>,
            <<"message",
              Str(IF op = "fetchMessage"
                  THEN "Timeout exceeded while waiting for message status."
                  ELSE "Timeout exceeded while waiting for video message status.")>> >>

C11_Witness ==
  /\ TimedOutPoll
  /\ op = "fetchMessage"
  /\ poll.messageId = "m"
  /\ waits = 2
  /\ Elapsed = 250

(***************************************************************************)
(* C12. One request per call: from the moment a submission or a single      *)
(* status fetch is called, exactly one request has gone out, a POST for a   *)
(* submission and a GET for a status fetch; once the call has settled,      *)
(* successfully or not, exactly one response has come in and the request    *)
(* count is still one.                                                      *)
(***************************************************************************)
C12_OneRequestPerCall ==
  (op \in PostMethods \cup FetchOnceMethods /\ pc # "idle") =>
    /\ Len(sent) = 1
    /\ sent[1].method = (IF op \in PostMethods THEN "POST" ELSE "GET")
    /\ Len(resp) = (IF pc = "inflight" THEN 0 ELSE 1)
    /\ pc \in {"inflight", "resolved", "rejected"}
    /\ pc = "resolved" => Last(resp).kind = "http" /\ Last(resp).ok
    /\ pc = "rejected" => Last(resp) \in Failures

C12_Witness ==
  /\ op = "extendVideo"
  /\ pc = "rejected"
  /\ resp = <<NetworkFailure>>
  /\ Len(sent) = 1

(***************************************************************************)
(* C13. Defaults: a client constructed from an API key alone has the base   *)
(* address https://api.imaginepro.ai, a default timeout of 1800000 ms and   *)
(* a fetch interval of 2000 ms; a fetchMessage called without interval and  *)
(* timeout runs on the client's configured values: its waits are of the     *)
(* configured interval, it goes on waiting only within the configured       *)
(* timeout and times out only beyond it.                                    *)
(***************************************************************************)
C13_Defaults ==
  /\ (Len(options) = 1 /\ HasKey(options, "apiKey")) =>
       /\ cfg.apiKey = Get(options, "apiKey")
       /\ cfg.baseUrl = Str("https://api.imaginepro.ai")
       /\ cfg.defaultTimeout = Num(1800000)
       /\ cfg.fetchInterval = Num(2000)
  /\ (/\ op = "fetchMessage"
      /\ Get(params, "interval") = Undefined
      /\ Get(params, "timeout") = Undefined) =>
       /\ poll.interval = cfg.fetchInterval.n
       /\ poll.timeout = cfg.defaultTimeout.n
       /\ Elapsed >= waits * cfg.fetchInterval.n
       /\ lastLatency = 0 /\ waits = 1 => Elapsed \in {cfg.fetchInterval.n + l : l \in Latencies}
       /\ pc = "waiting" => Elapsed <= cfg.defaultTimeout.n
       /\ TimedOutPoll => Elapsed > cfg.defaultTimeout.n

C13_Witness ==
  /\ Len(options) = 1
  /\ op = "fetchMessage"
  /\ Get(params, "interval") = Undefined
  /\ Get(params, "timeout") = Undefined
  /\ pc = "waiting"
  /\ waits = 1
  /\ Elapsed = 2050

(***************************************************************************)
(* C14. imagine: the call sends one POST to <baseUrl>/api/v1/nova/imagine   *)
(* with the header Authorization: Bearer <apiKey> and a body equal to the   *)
(* caller's parameter object, and when the response is a success it         *)
(* resolves with the parsed response body as it is.                         *)
(***************************************************************************)
C14_Imagine ==
  (op = "imagine" /\ pc # "idle") =>
    LET base == IF HasKey(options, "baseUrl") THEN Get(options, "baseUrl").s
                ELSE "https://api.imaginepro.ai"
    IN /\ Len(sent) = 1
       /\ sent[1].method = "POST"
       /\ sent[1].url = base \o "/api/v1/nova/imagine"
       /\ Get(sent[1].headers, "Authorization") =
            Str("Bearer " \o Get(options, "apiKey").s)
       /\ sent[1].hasBody
       /\ sent[1].body = params
       /\ Get(params, "prompt") = Str("a cat")
       /\ pc = "resolved" <=> (resp # <<>> /\ Last(resp).kind = "http" /\ Last(resp).ok)
       /\ pc = "resolved" => result = [kind |-> "resolved", value |-> Last(resp).body]

C14_Witness ==
  /\ op = "imagine"
  /\ pc = "resolved"
  /\ HasKey(params, "webhookOverride")
  /\ Get(sent[1].body, "timeout") = Num(900)
  /\ result.value = Handle
  /\ sent[1].url = "https://api.custom-url.com/api/v1/nova/imagine"

(***************************************************************************)
(* C15. Sequential queries: in a poll the queries sent exceed the answers   *)
(* received by at most one, and by one exactly while the loop awaits a      *)
(* fetch; a further query goes out only from the waiting state, when every  *)
(* earlier query has been answered, and exactly one interval after the      *)
(* wait began.                                                              *)
(***************************************************************************)
C15_Sequential ==
  [][op' \in PollMethods =>
       /\ Len(sent') - Len(resp') \in {0, 1}
       /\ (Len(sent') - Len(resp') = 1) <=> (pc' = "inflight")
       /\ (op \in PollMethods /\ Len(sent') # Len(sent)) =>
            /\ pc = "waiting"
            /\ Len(resp) = Len(sent)
            /\ Len(sent') = Len(sent) + 1
            /\ waits' = waits + 1
            /\ now' = now + poll.interval]_vars

C15_Witness ==
  /\ op = "fetchVideoMessage"
  /\ pc = "inflight"
  /\ Len(sent) = 3
  /\ Len(resp) = 2
  /\ waits = 2

(***************************************************************************)
(* C18. Terminal before timeout: in fetchMessage a step that receives a     *)
(* DONE or FAIL snapshot resolves the poll with that snapshot however much  *)
(* time has passed since the start; the poll passes to its timeout error    *)
(* only in a step that receives a non-terminal snapshot with the elapsed    *)
(* time beyond timeout; and the step that ends a wait issues the next       *)
(* query and never ends the poll.                                           *)
(***************************************************************************)
C18_TerminalBeforeTimeout ==
  [][op' = "fetchMessage" =>
       /\ (/\ Len(received') = Len(received) + 1
           /\ StatusOf(Last(received')) \in TerminalStatuses) =>
            /\ pc' = "resolved"
            /\ result' = [kind |-> "resolved", value |-> Last(received')]
       /\ (/\ pc' = "rejected"
           /\ Get(result'.value, "message") =
                Str("Timeout exceeded while waiting for message status.")) =>
            /\ pc = "inflight"
            /\ Len(resp') = Len(resp) + 1
            /\ Len(received') = Len(received) + 1
            /\ StatusOf(Last(received')) \notin TerminalStatuses
            /\ now' - poll.startTime > poll.timeout
       /\ pc = "waiting" => pc' = "inflight" /\ result' = result]_vars

C18_Witness ==
  /\ op = "fetchMessage"
  /\ pc = "resolved"
  /\ poll.timeout = 200
  /\ Elapsed = 600150
  /\ received = <<Processing40, Done100>>
  /\ result.value = Done100

(***************************************************************************)
(* C19. Failed query in a poll: when a status query of fetchMessage fails,  *)
(* by a transport failure or by a non-success response, the poll is         *)
(* rejected with the error of that query (the transport's error, or the     *)
(* error with the response's message), the failed query is the last one     *)
(* sent and the only one that failed, and every answer before it was a      *)
(* non-terminal snapshot, none of which is returned.                        *)
(***************************************************************************)
C19_FailedQueryRejects ==
  (/\ op = "fetchMessage"
   /\ \E k \in DOMAIN resp : resp[k] \in Failures) =>
    /\ pc = "rejected"
    /\ Last(resp) \in Failures
    /\ \A k \in 1..(Len(resp) - 1) : resp[k] \notin Failures
    /\ Len(sent) = Len(resp)
    /\ Len(received) = Len(resp) - 1
    /\ AllNonTerminal
    /\ result.kind = "rejected"
    /\ Last(resp) = NetworkFailure =>
         result.value = <<<<"name", Str("TypeError")>>, <<"message", Str("fetch failed")>>>>
    /\ Last(resp) = NotFound =>
         result.value = <<<<"name", Str("Error")>>, <<"message", Str("not found")>>>>

C19_Witness ==
  /\ op = "fetchMessage"
  /\ pc = "rejected"
  /\ received = <<Processing40, Queued0>>
  /\ Last(resp) = NetworkFailure
  /\ Len(sent) = 3
  /\ result.value = FetchFailed

(***************************************************************************)
(* C20. Unknown status: when the latest answer of a fetchMessage poll is a  *)
(* snapshot whose status is none of PROCESSING, QUEUED, DONE, FAIL, the     *)
(* poll has not resolved; it is waiting for its next query with the elapsed *)
(* time within timeout, or awaiting that query, or it has failed with the   *)
(* timeout error with the elapsed time beyond timeout.                      *)
(***************************************************************************)
KnownStatuses == {Str("PROCESSING"), Str("QUEUED"), Str("DONE"), Str("FAIL")}

C20_UnknownStatusNonTerminal ==
  (/\ op = "fetchMessage"
   /\ OnlySnapshots
   /\ received # <<>>
   /\ StatusOf(Last(received)) \notin KnownStatuses) =>
    /\ result.kind # "resolved"
    /\ pc \in {"waiting", "inflight", "rejected"}
    /\ pc = "waiting" => Elapsed <= poll.timeout /\ Len(sent) = Len(received)
    /\ pc = "inflight" => Len(sent) = Len(received) + 1
    /\ pc = "rejected" =>
         /\ Elapsed > poll.timeout
         /\ Get(result.value, "message") =
              Str("Timeout exceeded while waiting for message status.")

C20_Witness ==
  /\ op = "fetchMessage"
  /\ pc = "inflight"
  /\ received = <<Paused10, Paused10>>
  /\ waits = 2
  /\ Len(sent) = 3
  /\ result = Pending

(***************************************************************************)
(* C16. Polls side by side: on every step of two polls interleaved on one   *)
(* client, the client's configuration stays as it is; a poll that has been  *)
(* called keeps its job, interval, timeout and start time (its deadline);   *)
(* every query it has sent is for its own job; and once its loop body has   *)
(* run (the poll has returned, thrown or gone to wait) its outcome, its     *)
(* number of queries and waits and the elapsed time it saw are those of the *)
(* same poll run on its own on the answers and latencies it got.            *)
(***************************************************************************)
C16_PollsIndependent ==
  [][/\ cfg' = cfg
     /\ options' = options
     /\ \A p \in Pollers :
          LET was == polls[p]
              me == polls'[p]
              alone == PollAlone(me.op, me.answers, me.interval, me.timeout, 0, 1, 0)
          IN /\ was.pc # "idle" =>
                  /\ me.op = was.op
                  /\ me.messageId = was.messageId
                  /\ me.interval = was.interval
                  /\ me.timeout = was.timeout
                  /\ me.startTime = was.startTime
             /\ me.pc # "idle" =>
                  /\ me.messageId = JobOf[p]
                  /\ \A k \in DOMAIN me.sent : me.sent[k] = PollOnce(me.op, JobOf[p])
             /\ me.pc \in {"resolved", "rejected", "waiting"} =>
                  /\ me.pc = alone.pc
                  /\ me.result = alone.result
                  /\ Len(me.sent) = alone.queries
                  /\ me.waits = alone.waits
                  /\ me.issued - me.startTime = alone.elapsed]_vars

C16_Witness ==
  /\ polls[1].op = "fetchMessage"
  /\ polls[1].pc = "rejected"
  /\ Get(polls[1].result.value, "message") =
       Str("Timeout exceeded while waiting for message status.")
  /\ Len(polls[1].sent) = 3
  /\ polls[2].op = "fetchMessage"
  /\ polls[2].pc = "resolved"
  /\ polls[2].result.value = Done100
  /\ Len(polls[2].sent) = 2
  /\ polls[2].startTime = polls[1].startTime + 50
  /\ polls[2].issued < polls[1].issued

(***************************************************************************)
(* C17. The video poller as the image poller: a fetchVideoMessage poll      *)
(* whose loop body has run stands where fetchMessage's loop stands on the   *)
(* same answers, latencies, interval and timeout: as many queries and       *)
(* waits, the same snapshot returned when one is returned, the timeout      *)
(* error exactly when fetchMessage would time out, and otherwise the same   *)
(* error; its queries are fetchMessage's but for the endpoint.              *)
(***************************************************************************)
C17_VideoAsImage ==
  \A p \in Pollers :
    LET me == polls[p]
        image == PollAlone("fetchMessage", me.answers, me.interval, me.timeout, 0, 1, 0)
        imageTimeout == Str("Timeout exceeded while waiting for message status.")
        videoTimeout == Str("Timeout exceeded while waiting for video message status.")
    IN (me.op = "fetchVideoMessage" /\ me.pc \in {"resolved", "rejected", "waiting"}) =>
         /\ me.pc = image.pc
         /\ Len(me.sent) = image.queries
         /\ me.waits = image.waits
         /\ me.issued - me.startTime = image.elapsed
         /\ me.pc = "resolved" => me.result = image.result
         /\ me.pc = "rejected" =>
              IF Get(image.result.value, "message") = imageTimeout
              THEN Get(me.result.value, "message") = videoTimeout
              ELSE me.result = image.result
         /\ \A k \in DOMAIN me.sent :
              /\ me.sent[k].url = cfg.baseUrl.s \o "/api/v1/video/mj/fetch/" \o me.messageId
              /\ [me.sent[k] EXCEPT !.url = cfg.baseUrl.s \o "/api/v1/message/fetch/"
                                                \o me.messageId]
                   = fetchMessageOnce(me.messageId)

C17_Witness ==
  /\ polls[1].op = "fetchVideoMessage"
  /\ polls[1].pc = "rejected"
  /\ Get(polls[1].result.value, "message") =
       Str("Timeout exceeded while waiting for video message status.")
  /\ Len(polls[1].sent) = 3
  /\ polls[1].waits = 2
  /\ polls[1].issued - polls[1].startTime = 300

(***************************************************************************)
(* C21. Extracted bundle: the object extractBaseParams makes of the         *)
(* parameters of upscale, variant, reroll or inpainting, which is spread    *)
(* into the object handed to pressButton, has a key for ref,                *)
(* webhookOverride, timeout or disableCdn only when the caller's object has *)
(* that key.  (The code returns { ref, webhookOverride, timeout,            *)
(* disableCdn }: all four keys, undefined where the caller set none; only   *)
(* JSON.stringify keeps them off the wire.)                                 *)
(***************************************************************************)
ConvenienceMethods == {"upscale", "variant", "reroll", "inpainting"}

C21_ExtractedKeysOnlyIfSet ==
  (op \in ConvenienceMethods /\ pc # "idle") =>
    \A i \in DOMAIN BaseKeys :
      HasKey(extractBaseParams(params), BaseKeys[i]) =>
        /\ HasKey(params, BaseKeys[i])
        /\ Get(extractBaseParams(params), BaseKeys[i]) # Undefined

(***************************************************************************)
(* C22. geminiImagine: the request body has the caller's contents blocks    *)
(* in the caller's order and a model: the caller's when one was given, and  *)
(* "gemini-2.5-flash-image-preview" when none was.  (The code posts the     *)
(* caller's object as it is: without a model given, the body has none.)     *)
(***************************************************************************)
C22_GeminiDefaultModel ==
  (op = "geminiImagine" /\ pc # "idle") =>
    /\ Len(sent) = 1
    /\ Get(sent[1].body, "contents") = Get(params, "contents")
    /\ Get(sent[1].body, "model") =
         (IF HasKey(params, "model") THEN Get(params, "model")
          ELSE Str("gemini-2.5-flash-image-preview"))

(***************************************************************************)
(* C23. inpainting: the call sends one POST to the button endpoint whose    *)
(* body has the caller's messageId, the button 'Vary (Region)' and a mask   *)
(* equal to the caller's mask, whatever prompt and base parameters come     *)
(* with it; the body has a prompt exactly when the caller gave one, and     *)
(* then the caller's.                                                       *)
(***************************************************************************)
C23_InpaintingKeepsMask ==
  (op = "inpainting" /\ pc # "idle") =>
    /\ Len(sent) = 1
    /\ sent[1].method = "POST"
    /\ sent[1].url = ButtonUrl
    /\ Get(sent[1].body, "messageId") = Get(params, "messageId")
    /\ Get(sent[1].body, "button") = Str("Vary (Region)")
    /\ HasKey(params, "mask")
    /\ HasKey(sent[1].body, "mask")
    /\ Get(sent[1].body, "mask") = Get(params, "mask")
    /\ HasKey(sent[1].body, "prompt") <=> HasKey(params, "prompt")
    /\ Get(sent[1].body, "prompt") = Get(params, "prompt")

C23_Witness ==
  /\ op = "inpainting"
  /\ pc = "resolved"
  /\ Get(sent[1].body, "mask") = Str("xxx")
  /\ ~HasKey(sent[1].body, "prompt")
  /\ Get(sent[1].body, "disableCdn") = Bool(TRUE)
  /\ Get(sent[1].body, "ref") = Str("ref-id")

(***************************************************************************)
(* C24. Button table: every symbolic name maps to the wire string that is   *)
(* its own, no two names map to the same string, UPSCALE_CREATIVE maps to   *)
(* 'Upscale (Creative)' and CANCEL_JOB alone maps to 'Cancel Job'; so the   *)
(* button reroll sends is the reroll symbol.  The wire strings are the      *)
(* member names of the earlier table.  (In the table of the source the      *)
(* five symbol values are other character sequences: the UTF-8 bytes of     *)
(* the symbols read in another encoding.)                                   *)
(***************************************************************************)
WireStrings ==
  [U1 |-> "U1", U2 |-> "U2", U3 |-> "U3", U4 |-> "U4",
   V1 |-> "V1", V2 |-> "V2", V3 |-> "V3", V4 |-> "V4",
   REROLL |-> "U+1F504",
   ZOOM_OUT_2X |-> "Zoom Out 2x",
   ZOOM_OUT_1_5X |-> "Zoom Out 1.5x",
   VARY_STRONG |-> "Vary (Strong)",
   VARY_SUBTLE |-> "Vary (Subtle)",
   VARY_REGION |-> "Vary (Region)",
   PAN_LEFT |-> "U+2B05 U+FE0F",
   PAN_RIGHT |-> "U+27A1 U+FE0F",
   PAN_UP |-> "U+2B06 U+FE0F",
   PAN_DOWN |-> "U+2B07 U+FE0F",
   MAKE_SQUARE |-> "Make Square",
   UPSCALE_2X |-> "Upscale (2x)",
   UPSCALE_4X |-> "Upscale (4x)",
   CANCEL_JOB |-> "Cancel Job",
   UPSCALE_CREATIVE |-> "Upscale (Creative)",
   UPSCALE_SUBTLE |-> "Upscale (Subtle)"]

\* The parts of C24 that the table of the source meets.
ButtonTableInjective ==
  /\ \A a, b \in DOMAIN Button : Button[a] = Button[b] => a = b
  /\ Button.UPSCALE_CREATIVE = "Upscale (Creative)"
  /\ \A a \in DOMAIN Button : Button[a] = "Cancel Job" <=> a = "CANCEL_JOB"

C24_ButtonTable ==
  (op = "reroll" /\ pc # "idle") =>
    /\ DOMAIN Button = DOMAIN WireStrings
    /\ \A a \in DOMAIN Button : Button[a] = WireStrings[a]
    /\ ButtonTableInjective
    /\ Get(sent[1].body, "button") = Str(WireStrings.REROLL)

(***************************************************************************)
(* C25. What a poll returns: a fetchMessage or fetchVideoMessage that has   *)
(* resolved has resolved with the last snapshot it fetched, whose status is *)
(* DONE or FAIL; a poll that has not resolved is still running with its     *)
(* promise pending, or has been rejected, with the timeout error after      *)
(* snapshots only or with the error of its failed query.                    *)
(***************************************************************************)
C25_ReturnsOnlyTerminal ==
  (op \in PollMethods /\ pc # "idle") =>
    /\ pc \in {"inflight", "waiting", "resolved", "rejected"}
    /\ (result.kind = "resolved") <=> (pc = "resolved")
    /\ (result.kind = "rejected") <=> (pc = "rejected")
    /\ pc = "resolved" =>
         /\ result.value = Last(received)
         /\ StatusOf(result.value) \in TerminalStatuses
    /\ pc = "rejected" =>
         \/ /\ OnlySnapshots
            /\ AllNonTerminal
            /\ Get(result.value, "message") \in
                 {Str("Timeout exceeded while waiting for message status."),
                  Str("Timeout exceeded while waiting for video message status.")}
         \/ /\ Last(resp) \in Failures
            /\ Len(received) = Len(resp) - 1
            /\ Get(result.value, "message") \in {Str("fetch failed"), Str("not found")}

C25_Witness ==
  /\ op = "fetchVideoMessage"
  /\ pc = "resolved"
  /\ received = <<Queued0, Processing40, Fail0>>
  /\ result.value = Fail0

(***************************************************************************)
(* C26. Waits and queries: from its call on, a poll has completed one wait  *)
(* fewer than it has sent queries, each of the waits having taken interval  *)
(* of the elapsed time; when the poll has ended, by return, timeout or      *)
(* failed query, every query has been answered and the waits are the        *)
(* queries minus one.                                                       *)
(***************************************************************************)
C26_WaitsBetweenQueries ==
  (op \in PollMethods /\ pc # "idle") =>
    /\ Len(sent) >= 1
    /\ waits = Len(sent) - 1
    /\ Elapsed >= waits * poll.interval
    /\ pc = "waiting" => Len(resp) = Len(sent)
    /\ pc \in {"resolved", "rejected"} =>
         /\ Len(resp) = Len(sent)
         /\ waits = Len(resp) - 1

C26_Witness ==
  /\ op = "fetchMessage"
  /\ TimedOutPoll
  /\ Len(sent) = 3
  /\ waits = 2
  /\ poll.interval = 100
  /\ Elapsed = 300

(***************************************************************************)
(* C27. Strict timeout: a poll has sent at least one query; a poll that     *)
(* ended by timeout did so with every query answered, at least one, and     *)
(* with the elapsed time strictly beyond timeout; and a poll whose latest   *)
(* answer is a non-terminal snapshot received when the elapsed time was     *)
(* timeout exactly is not rejected but waiting to query again.              *)
(***************************************************************************)
C27_StrictTimeout ==
  (op \in PollMethods /\ pc # "idle") =>
    /\ Len(sent) >= 1
    /\ TimedOutPoll =>
         /\ Len(resp) >= 1
         /\ Len(resp) = Len(sent)
         /\ Elapsed > poll.timeout
    /\ (/\ OnlySnapshots
        /\ Len(resp) = Len(sent)
        /\ StatusOf(Last(received)) \notin TerminalStatuses
        /\ Elapsed = poll.timeout) =>
         /\ pc = "waiting"
         /\ result = Pending

C27_Witness ==
  /\ op = "fetchMessage"
  /\ poll.timeout = 0
  /\ received = <<Processing40>>
  /\ Len(sent) = 2
  /\ pc = "inflight"
  /\ waits = 1
  /\ Elapsed = poll.interval

====
